---- MODULE Spec2Model ----
(***************************************************************************)
(* A model of miapy's rigid multi-modal registration filter and its        *)
(* progress plotter (miapy/filtering/registration.py), of the segmentation *)
(* overlay helper (miapy/plotting/plotter.py) and of the image property    *)
(* helpers exercised by test/test_image/test_image.py.                     *)
(*                                                                         *)
(* SpecConstruct  RigidMultiModalRegistration.__init__ on arguments drawn   *)
(*            from a bounded set.                                          *)
(* Spec       a constructed registration filter: execute, the engine's     *)
(*            events and the plotter callbacks they invoke.                *)
(* SpecImage  ImageProperties and SimpleITKNumpyImageBridge on handles     *)
(*            drawn from a bounded set.                                    *)
(* SpecPlot   plot_2d_segmentation on array shapes drawn from a bounded    *)
(*            set.                                                         *)
(***************************************************************************)
EXTENDS Integers, Sequences, FiniteSets, TLC

VARIABLES
    created,       \* a RigidMultiModalRegistration instance exists
    self,          \* its configuration fields (None until assigned)
    verbose,       \* self.verbose, the field of the IFilter base class
    registration,  \* self.registration, the sitk.ImageRegistrationMethod
    plotters,      \* every RegistrationPlotter constructed so far
    pc,            \* position of the current execute call
    frame,         \* arguments and locals of the current execute call
    raised,        \* exception raised by the last constructor / execute call
    result,        \* image returned by the last execute call
    output,        \* lines printed by the last execute call
    files,         \* files written during the last execute call, in order
    calls,         \* number of execute calls made
    image1,        \* SpecImage: first image handle (or None)
    image2,        \* SpecImage: second image handle
    dut1,          \* SpecImage: ImageProperties(image1)
    dut2,          \* SpecImage: ImageProperties(image2)
    compared,      \* SpecImage: results of dut1 == dut2 and dut1 != dut2
    converted,     \* SpecImage: result of SimpleITKNumpyImageBridge.convert
    shapes,        \* SpecPlot: shapes of image, ground_truth, segmentation
    plot           \* SpecPlot: what the last plot_2d_segmentation call did

regVars == <<created, self, verbose, registration, plotters, pc, frame,
             raised, result, output, files, calls>>
imgVars == <<image1, image2, dut1, dut2, compared, converted>>
plotVars == <<shapes, plot>>
vars == <<regVars, imgVars, plotVars>>

\* Python's None where an object is expected, where an exception is
\* expected, and where a transform is expected.
None == [none |-> TRUE]
NoError == "none"
NoTransform == 0

(***************************************************************************)
(* Bounds of the model.                                                    *)
(***************************************************************************)
MaxCalls == 2        \* execute calls on the one filter instance
MaxEvents == 3       \* resolution-change and iteration events of one run
MaxLevels == 2       \* longest shrink-factor / smoothing-sigma sequence
MaxIterations == 2   \* largest number_of_iterations
MaxDim == 3          \* most spatial axes of an image handle
MaxComponents == 2   \* most components per pixel of an image handle
MaxNdim == 3         \* most axes of an array given to plot_2d_segmentation

(***************************************************************************)
(* Values the registration filter works on.                                *)
(***************************************************************************)
IntegerPixelIDs == {"sitkUInt8"}
RealPixelIDs == {"sitkFloat32", "sitkFloat64"}
PixelIDs == IntegerPixelIDs \cup RealPixelIDs

\* An image handle, as far as the filter reads it: its pixel type.
Images == [pixel : PixelIDs]

\* The fixed images the parameters are drawn from.
FixedImages == [pixel : {"sitkUInt8", "sitkFloat32"}]

\* plot_directory_path: '' (the default) or a directory prefix.
PlotPaths == {"", "a/", "b/"}

\* RigidMultiModalRegistrationParams(fixed_image, plot_directory_path)
RigidMultiModalRegistrationParams ==
    [fixed_image : FixedImages, plot_directory_path : PlotPaths]

\* registration_method.GetMetricValue() during a run
MetricValues == {-1, -2}

\* Shrink factors and smoothing sigmas of n levels, shaped like the
\* defaults [4, 2, 1] and [2, 1, 0].
ShrinkFactors(n) == [i \in 1..n |-> 2 ^ (n - i)]
SmoothingSigmas(n) == [i \in 1..n |-> n - i]

\* Every sequence over S of length at most n
SeqsUpTo(S, n) == UNION {[1..k -> S] : k \in 0..n}

\* The sequences the constructor is tried on
ShrinkFactorSeqs == SeqsUpTo({1, 2, 4}, MaxLevels)
SmoothingSigmaSeqs == SeqsUpTo({0, 1, 2}, MaxLevels)

(***************************************************************************)
(* sitk helpers used by execute.                                           *)
(***************************************************************************)
\* sitk.Normalize(image): a new image, zero mean and unit variance, of a
\* real pixel type; which real type is the library's choice.
Normalize(image) == {[image EXCEPT !.pixel = p] : p \in RealPixelIDs}

\* sitk.Resample(image, reference, transform, interpolator, default, pixel_id)
Resample(image, reference, transform, pixel_id) ==
    [pixel |-> pixel_id, grid |-> "fixed", transform |-> transform]

\* Python truthiness of a str
Truthy(s) == s # ""

\* format(n, '03d'): the decimal digits of n, zero-padded to 3 characters
RECURSIVE Digits(_)
Digits(n) == IF n < 10 THEN <<n>> ELSE Append(Digits(n \div 10), n % 10)

Format03d(n) ==
    LET d == Digits(n)
    IN  IF Len(d) >= 3 THEN d ELSE [i \in 1..(3 - Len(d)) |-> 0] \o d

(***************************************************************************)
(* RegistrationPlotter.                                                    *)
(***************************************************************************)
\* RegistrationPlotter.__init__: the fields of a new plotter; of the
\* arguments its iteration callback closes over, the path and the transform
\* are kept with it.
NewPlotter(path, transform) ==
    [metric_values |-> <<>>, multires_iterations |-> <<>>,
     path |-> path, transform |-> transform]

\* The four AddCommand calls of RegistrationPlotter.__init__, for plotter k.
PlotterCommands(k) ==
    << [event |-> "Start", plotter |-> k],
       [event |-> "End", plotter |-> k],
       [event |-> "MultiResolutionIteration", plotter |-> k],
       [event |-> "Iteration", plotter |-> k] >>

\* Faulty variant of StartPlot: only the history is emptied, the markers of
\* the previous run stay.
StartPlot_keeps_markers(p) == [p EXCEPT !.metric_values = <<>>]

\* _start_plot
StartPlot(p) == [p EXCEPT !.metric_values = <<>>, !.multires_iterations = <<>>]

\* _end_plot: plt.close() only
EndPlot(p) == p

\* Faulty variant of UpdateMultiresolutionIterations: the marker is the
\* number of the next metric value, counted from 1.
UpdateMultiresolutionIterations_one_based(p) ==
    [p EXCEPT !.multires_iterations = Append(@, Len(p.metric_values) + 1)]

\* _update_multiresolution_iterations
UpdateMultiresolutionIterations(p) ==
    [p EXCEPT !.multires_iterations = Append(@, Len(p.metric_values))]

\* Faulty variant of SavePlotAppend: only the latest metric value is kept.
SavePlotAppend_latest_only(p, metric) == [p EXCEPT !.metric_values = <<metric>>]

\* _save_plot, first statement: the metric value joins the history
SavePlotAppend(p, metric) == [p EXCEPT !.metric_values = Append(@, metric)]

\* _save_plot, line 218: self.metric_values[index] for every marker, with
\* Python's 0-based indexing; IndexError when a marker is out of range
\* (markers are never negative, so no negative index wraps around).
MarkerLookupFails(p) ==
    \E i \in 1..Len(p.multires_iterations) :
        p.multires_iterations[i] >= Len(p.metric_values)

\* Faulty variant of PlotFileName: the number is taken before the append,
\* so the files are numbered from 0.
PlotFileName_before_append(p) ==
    [prefix |-> p.path, number |-> Format03d(Len(p.metric_values) - 1),
     suffix |-> ".png"]

\* _save_plot, last statement: the file name handed to _write_combined_image
PlotFileName(p) ==
    [prefix |-> p.path, number |-> Format03d(Len(p.metric_values)),
     suffix |-> ".png"]

\* One callback invocation on the state st = [plotters, files, error].
\* After an exception nothing more of the run executes.
InvokeCommand(cmd, metric, st) ==
    LET k == cmd.plotter
        p == st.plotters[k]
    IN  IF st.error # NoError THEN st
        ELSE IF cmd.event = "Start"
            THEN [st EXCEPT !.plotters[k] = StartPlot(p)]
        ELSE IF cmd.event = "End"
            THEN [st EXCEPT !.plotters[k] = EndPlot(p)]
        ELSE IF cmd.event = "MultiResolutionIteration"
            THEN [st EXCEPT !.plotters[k] = UpdateMultiresolutionIterations(p)]
        ELSE LET q == SavePlotAppend(p, metric)
             IN  IF MarkerLookupFails(q)
                 THEN [st EXCEPT !.plotters[k] = q, !.error = "IndexError"]
                 ELSE [st EXCEPT !.plotters[k] = q,
                                 !.files = Append(@, PlotFileName(q))]

\* The engine raises an event: every command added for that event runs, in
\* the order the commands were added.
RECURSIVE InvokeEvent(_, _, _, _)
InvokeEvent(commands, event, metric, st) ==
    IF commands = <<>> THEN st
    ELSE LET cmd == Head(commands)
             next == IF cmd.event = event
                     THEN InvokeCommand(cmd, metric, st) ELSE st
         IN  InvokeEvent(Tail(commands), event, metric, next)

\* Plotters that have an iteration callback subscribed to the engine.
Subscribed(commands) ==
    {commands[i].plotter : i \in {j \in 1..Len(commands) :
                                      commands[j].event = "Iteration"}}

(***************************************************************************)
(* RigidMultiModalRegistration.                                            *)
(***************************************************************************)
NoFrame == [moving |-> None, params |-> None, image |-> None,
            initial_transform |-> NoTransform, transform |-> NoTransform]

\* sitk.ImageRegistrationMethod() as __init__ configures it: the optimizer's
\* iteration budget and the pyramid, no initial transform, no commands.
NewRegistration(number_of_iterations, shrink_factors, smoothing_sigmas) ==
    [numberOfIterations |-> number_of_iterations,
     shrinkFactorsPerLevel |-> shrink_factors,
     smoothingSigmasPerLevel |-> smoothing_sigmas,
     initial_transform |-> NoTransform,
     commands |-> <<>>,
     runs |-> 0,       \* Execute calls started
     level |-> 0,      \* resolution levels entered in the current run
     iteration |-> 0,  \* GetOptimizerIteration()
     events |-> 0,     \* events raised in the current run
     metric |-> 0]     \* GetMetricValue()

\* Faulty variant of LengthsDiffer: only a shorter sigma sequence is rejected.
LengthsDiffer_shorter_sigmas(shrink_factors, smoothing_sigmas) ==
    Len(shrink_factors) > Len(smoothing_sigmas)

\* __init__, line 74: the only validation
LengthsDiffer(shrink_factors, smoothing_sigmas) ==
    Len(shrink_factors) # Len(smoothing_sigmas)

\* RigidMultiModalRegistration.__init__
RigidMultiModalRegistration(number_of_iterations, shrink_factors, smoothing_sigmas) ==
    /\ pc = "idle"
    /\ ~created
    /\ IF LengthsDiffer(shrink_factors, smoothing_sigmas)
       THEN /\ raised' = "ValueError"
            /\ UNCHANGED <<created, self, verbose, registration>>
       ELSE /\ raised' = NoError
            /\ created' = TRUE
            /\ verbose' = FALSE
            /\ self' = [number_of_iterations |-> number_of_iterations,
                        shrink_factors |-> shrink_factors,
                        smoothing_sigmas |-> smoothing_sigmas]
            /\ registration' = NewRegistration(number_of_iterations,
                                               shrink_factors, smoothing_sigmas)
    /\ UNCHANGED <<plotters, pc, frame, result, output, files, calls>>
    /\ UNCHANGED <<imgVars, plotVars>>

\* The caller switches the verbose mode of the filter (IFilter.verbose).
SetVerbose(b) ==
    /\ pc = "idle"
    /\ created
    /\ verbose # b
    /\ verbose' = b
    /\ UNCHANGED <<created, self, registration, plotters, pc, frame, raised,
                   result, output, files, calls>>
    /\ UNCHANGED <<imgVars, plotVars>>

\* execute, line 135: whether a RegistrationPlotter is constructed
AttachesPlotter(params) == Truthy(params.plot_directory_path)

\* Faulty variant of execute_without_params: the check comes after the
\* initial transform was handed to the engine.
execute_without_params_late ==
    /\ raised' = "ValueError"
    /\ registration' = [registration EXCEPT !.initial_transform = calls + 1]
    /\ UNCHANGED <<plotters, pc, frame>>

\* execute, lines 123-124: params is None; the call ends in a ValueError
\* before anything else is done.
execute_without_params ==
    /\ raised' = "ValueError"
    /\ UNCHANGED <<registration, plotters, pc, frame>>

\* execute, lines 123-139: from the call to the start of the engine run.
\* image is rebound to its normalized copy (line 133); the caller's handle
\* stays in frame.moving. The normalized fixed image (line 132) is a new
\* image that only the engine and the plotter's callback receive; later
\* lines read params.fixed_image, so it is not kept in the frame.
execute(image, params) ==
    /\ pc = "idle"
    /\ created
    /\ calls < MaxCalls
    /\ calls' = calls + 1
    /\ result' = None
    /\ output' = <<>>
    /\ files' = <<>>
    /\ IF params = None
       THEN execute_without_params
       ELSE \E normalized \in Normalize(image) :
            LET initial_transform == calls + 1
                k == Len(plotters) + 1
                attach == AttachesPlotter(params)
            IN  /\ raised' = NoError
                /\ registration' =
                       [registration EXCEPT
                           !.initial_transform = initial_transform,
                           !.commands = IF attach THEN @ \o PlotterCommands(k)
                                        ELSE @]
                /\ plotters' =
                       IF attach
                       THEN Append(plotters,
                                   NewPlotter(params.plot_directory_path,
                                              initial_transform))
                       ELSE plotters
                /\ frame' = [moving |-> image, params |-> params,
                             image |-> normalized,
                             initial_transform |-> initial_transform,
                             transform |-> NoTransform]
                /\ pc' = "start"
    /\ UNCHANGED <<created, self, verbose>>
    /\ UNCHANGED <<imgVars, plotVars>>

\* The state the callbacks of one event work on.
CallbackState == [plotters |-> plotters, files |-> files, error |-> NoError]

\* registration.Execute begins: sitkStartEvent
StartEvent ==
    /\ pc = "start"
    /\ LET st == InvokeEvent(registration.commands, "Start", 0, CallbackState)
       IN  /\ plotters' = st.plotters
           /\ files' = st.files
    /\ registration' = [registration EXCEPT !.runs = @ + 1, !.level = 0,
                                            !.iteration = 0, !.events = 0]
    /\ pc' = "running"
    /\ UNCHANGED <<created, self, verbose, frame, raised, result, output, calls>>
    /\ UNCHANGED <<imgVars, plotVars>>

\* The engine enters the next resolution level: sitkMultiResolutionIterationEvent.
\* The optimizer starts over at every level.
MultiResolutionIterationEvent ==
    /\ pc = "running"
    /\ registration.events < MaxEvents
    /\ registration.level < Len(registration.shrinkFactorsPerLevel)
    /\ LET st == InvokeEvent(registration.commands, "MultiResolutionIteration",
                             0, CallbackState)
       IN  /\ plotters' = st.plotters
           /\ files' = st.files
    /\ registration' = [registration EXCEPT !.level = @ + 1, !.iteration = 0,
                                            !.events = @ + 1]
    /\ UNCHANGED <<created, self, verbose, pc, frame, raised, result, output, calls>>
    /\ UNCHANGED <<imgVars, plotVars>>

\* One optimizer step: sitkIterationEvent. An exception of a callback ends
\* the run and leaves execute.
IterationEvent(metric) ==
    /\ pc = "running"
    /\ registration.events < MaxEvents
    /\ registration.iteration < registration.numberOfIterations
    /\ LET st == InvokeEvent(registration.commands, "Iteration", metric,
                             CallbackState)
       IN  /\ plotters' = st.plotters
           /\ files' = st.files
           /\ raised' = st.error
           /\ pc' = IF st.error = NoError THEN "running" ELSE "idle"
    /\ registration' = [registration EXCEPT !.iteration = @ + 1,
                                            !.events = @ + 1,
                                            !.metric = metric]
    /\ UNCHANGED <<created, self, verbose, frame, result, output, calls>>
    /\ UNCHANGED <<imgVars, plotVars>>

\* registration.Execute ends (converged or out of iterations): sitkEndEvent;
\* the engine hands back the transform it optimised in place.
EndEvent ==
    /\ pc = "running"
    /\ LET st == InvokeEvent(registration.commands, "End", 0, CallbackState)
       IN  /\ plotters' = st.plotters
           /\ files' = st.files
    /\ frame' = [frame EXCEPT !.transform = frame.initial_transform]
    /\ pc' = "ended"
    /\ UNCHANGED <<created, self, verbose, registration, raised, result,
                   output, calls>>
    /\ UNCHANGED <<imgVars, plotVars>>

\* Faulty variant of Report: the iteration count is taken to start at 0.
Report_off_by_one(verbose_, number_of_iterations, optimizer_iteration) ==
    IF verbose_
    THEN <<"Final metric value", "Optimizer's stopping condition">>
    ELSE IF number_of_iterations = optimizer_iteration + 1
         THEN <<"did not converge">>
         ELSE <<>>

\* execute, lines 141-146: what is printed after the run
Report(verbose_, number_of_iterations, optimizer_iteration) ==
    IF verbose_
    THEN <<"Final metric value", "Optimizer's stopping condition">>
    ELSE IF number_of_iterations = optimizer_iteration
         THEN <<"did not converge">>
         ELSE <<>>

\* execute, line 148: the pixel type asked of sitk.Resample, read from the
\* local name image
OutputPixelID(fr) == fr.image.pixel

\* execute, lines 141-148: the report and the resampled image
execute_return ==
    /\ pc = "ended"
    /\ output' = Report(verbose, self.number_of_iterations, registration.iteration)
    /\ result' = Resample(frame.image, frame.params.fixed_image,
                          frame.transform, OutputPixelID(frame))
    /\ pc' = "idle"
    /\ UNCHANGED <<created, self, verbose, registration, plotters, frame,
                   raised, files, calls>>
    /\ UNCHANGED <<imgVars, plotVars>>

RegInit ==
    /\ created = FALSE
    /\ self = None
    /\ verbose = FALSE
    /\ registration = None
    /\ plotters = <<>>
    /\ pc = "idle"
    /\ frame = NoFrame
    /\ raised = NoError
    /\ result = None
    /\ output = <<>>
    /\ files = <<>>
    /\ calls = 0

ImgIdle ==
    /\ image1 = None
    /\ image2 = None
    /\ dut1 = None
    /\ dut2 = None
    /\ compared = None
    /\ converted = None

PlotIdle ==
    /\ shapes = <<>>
    /\ plot = None

(***************************************************************************)
(* Image handles, ImageProperties and SimpleITKNumpyImageBridge            *)
(* (miapy.image.image, exercised by test/test_image/test_image.py).        *)
(***************************************************************************)
\* Per-axis extents, as in the tests: x = y = 10, z = 3.
Extents == {3, 10}

\* sitk.Image(size, pixel_id, components): sizes of 2 to MaxDim axes
Sizes == UNION {[1..d -> Extents] : d \in 2..MaxDim}

\* image.SetOrigin / SetSpacing: one value per axis
PerAxis(d, v) == [i \in 1..d |-> v]

\* image.SetDirection: the flattened d x d direction cosines, the identity
\* or the identity with its first two axes swapped ((0,1,0,1,0,0,0,0,1) in
\* the tests).
Direction(d, swapped) ==
    [i \in 1..(d * d) |->
        LET r == (i - 1) \div d
            c == (i - 1) % d
            rr == IF swapped /\ r < 2 THEN 1 - r ELSE r
        IN  IF rr = c THEN 1 ELSE 0]

\* Scalar pixel types have one component per pixel, the vector type has more.
PixelTypes ==
    {[pixel_id |-> "sitkUInt8", components |-> 1],
     [pixel_id |-> "sitkInt8", components |-> 1]}
    \cup {[pixel_id |-> "sitkVectorUInt8", components |-> c] : c \in 2..MaxComponents}

ImageHandles ==
    {[size |-> s, origin |-> PerAxis(Len(s), o), spacing |-> PerAxis(Len(s), sp),
      direction |-> Direction(Len(s), sw),
      pixel_id |-> t.pixel_id, components |-> t.components] :
        s \in Sizes, o \in {0, 1}, sp \in {1, 2}, sw \in BOOLEAN, t \in PixelTypes}

\* Faulty variant of ImageProperties: the component axis of a vector image
\* is counted as a dimension.
ImageProperties_counting_components(image) ==
    [size |-> image.size,
     origin |-> image.origin,
     spacing |-> image.spacing,
     direction |-> image.direction,
     dimensions |-> Len(image.size) + (IF image.components > 1 THEN 1 ELSE 0),
     number_of_components_per_pixel |-> image.components,
     pixel_id |-> image.pixel_id]

\* ImageProperties.__init__: the metadata read off the handle
ImageProperties(image) ==
    [size |-> image.size,
     origin |-> image.origin,
     spacing |-> image.spacing,
     direction |-> image.direction,
     dimensions |-> Len(image.size),
     number_of_components_per_pixel |-> image.components,
     pixel_id |-> image.pixel_id]

is_two_dimensional(p) == p.dimensions = 2

is_three_dimensional(p) == p.dimensions = 3

is_vector_image(p) == p.number_of_components_per_pixel > 1

\* Faulty variant of PropertiesEq: the pixel type takes part.
PropertiesEq_with_pixel_type(p, q) ==
    /\ p.size = q.size
    /\ p.origin = q.origin
    /\ p.spacing = q.spacing
    /\ p.direction = q.direction
    /\ p.pixel_id = q.pixel_id

\* ImageProperties.__eq__
PropertiesEq(p, q) ==
    /\ p.size = q.size
    /\ p.origin = q.origin
    /\ p.spacing = q.spacing
    /\ p.direction = q.direction

\* ImageProperties.__ne__
PropertiesNe(p, q) == ~PropertiesEq(p, q)

\* tuple[::-1]
RECURSIVE Reversed(_)
Reversed(t) == IF t = <<>> THEN <<>> ELSE Append(Reversed(Tail(t)), Head(t))

\* The numpy element type of a pixel type
DType(pixel_id) ==
    IF pixel_id = "sitkInt8" THEN "int8" ELSE "uint8"

\* Faulty variant of ArrayFromImage: the axes keep the handle's order.
ArrayFromImage_same_order(image) ==
    [shape |-> image.size, dtype |-> DType(image.pixel_id)]

\* The array of a handle: axes in reversed order, same element type
ArrayFromImage(image) ==
    [shape |-> Reversed(image.size), dtype |-> DType(image.pixel_id)]

\* SimpleITKNumpyImageBridge.convert
ConvertRaises(image) == image = None

Convert(image) ==
    IF ConvertRaises(image)
    THEN [raised |-> "ValueError", array |-> None, properties |-> None]
    ELSE [raised |-> NoError, array |-> ArrayFromImage(image),
          properties |-> ImageProperties(image)]

\* Two ImageProperties are built and compared, as the tests do.
Compare ==
    /\ image1 # None
    /\ compared = None
    /\ dut1' = ImageProperties(image1)
    /\ dut2' = ImageProperties(image2)
    /\ compared' = [eq |-> PropertiesEq(dut1', dut2'),
                    ne |-> PropertiesNe(dut1', dut2')]
    /\ UNCHANGED <<image1, image2, converted>>
    /\ UNCHANGED <<regVars, plotVars>>

\* img.SimpleITKNumpyImageBridge.convert(image1)
ConvertImage ==
    /\ converted = None
    /\ converted' = Convert(image1)
    /\ UNCHANGED <<image1, image2, dut1, dut2, compared>>
    /\ UNCHANGED <<regVars, plotVars>>

(***************************************************************************)
(* plot_2d_segmentation (miapy/plotting/plotter.py).                       *)
(***************************************************************************)
\* Per-axis extents of the arrays, as in the docstring example (10, 15).
ArrayExtents == {10, 15}

\* ndarray.shape: 0 to MaxNdim axes
ArrayShapes == UNION {[1..d -> ArrayExtents] : d \in 0..MaxNdim}

SavePaths == {"a.png", "b.png"}

\* Faulty variant of ShapesEqual: the segmentation is not compared.
ShapesEqual_first_two(image_shape, ground_truth_shape, segmentation_shape) ==
    image_shape = ground_truth_shape

\* line 139: image.shape == ground_truth.shape == segmentation.shape
ShapesEqual(image_shape, ground_truth_shape, segmentation_shape) ==
    /\ image_shape = ground_truth_shape
    /\ ground_truth_shape = segmentation_shape

\* line 141: image.ndim == 2
IsTwoDimensional(image_shape) == Len(image_shape) = 2

\* plot_2d_segmentation: the two validations, then one figure is created,
\* saved to path and closed.
plot_2d_segmentation(path, image_shape, ground_truth_shape, segmentation_shape) ==
    /\ plot = None
    /\ plot' =
        IF ~ShapesEqual(image_shape, ground_truth_shape, segmentation_shape)
        THEN [raised |-> "ValueError",
              message |-> "image, ground_truth, and segmentation must have equal shape",
              figures |-> 0, saved |-> {}]
        ELSE IF ~IsTwoDimensional(image_shape)
        THEN [raised |-> "ValueError",
              message |-> "only 2-dimensional images supported",
              figures |-> 0, saved |-> {}]
        ELSE [raised |-> NoError, message |-> "",
              figures |-> 1, saved |-> {path}]
    /\ UNCHANGED shapes
    /\ UNCHANGED <<regVars, imgVars>>

\* No filter instance yet.
InitConstruct == RegInit /\ ImgIdle /\ PlotIdle

NextConstruct ==
    \E n \in 1..MaxIterations, shrink_factors \in ShrinkFactorSeqs,
       smoothing_sigmas \in SmoothingSigmaSeqs :
        RigidMultiModalRegistration(n, shrink_factors, smoothing_sigmas)

SpecConstruct == InitConstruct /\ [][NextConstruct]_vars

\* A filter as the constructor leaves it, with a pyramid of MaxLevels levels.
Constructed(number_of_iterations) ==
    /\ created = TRUE
    /\ self = [number_of_iterations |-> number_of_iterations,
               shrink_factors |-> ShrinkFactors(MaxLevels),
               smoothing_sigmas |-> SmoothingSigmas(MaxLevels)]
    /\ verbose = FALSE
    /\ registration = NewRegistration(number_of_iterations,
                                      ShrinkFactors(MaxLevels),
                                      SmoothingSigmas(MaxLevels))
    /\ plotters = <<>>
    /\ pc = "idle"
    /\ frame = NoFrame
    /\ raised = NoError
    /\ result = None
    /\ output = <<>>
    /\ files = <<>>
    /\ calls = 0

Init ==
    /\ \E n \in 1..MaxIterations : Constructed(n)
    /\ ImgIdle
    /\ PlotIdle

Next ==
    \/ \E b \in BOOLEAN : SetVerbose(b)
    \/ \E image \in Images,
          params \in RigidMultiModalRegistrationParams \cup {None} :
           execute(image, params)
    \/ StartEvent
    \/ MultiResolutionIterationEvent
    \/ \E metric \in MetricValues : IterationEvent(metric)
    \/ EndEvent
    \/ execute_return

Spec == Init /\ [][Next]_vars

\* Handles to compare (image1, image2), or a handle or None to convert.
InitImage ==
    /\ RegInit
    /\ PlotIdle
    /\ image1 \in ImageHandles \cup {None}
    /\ image2 \in IF image1 = None THEN {None} ELSE ImageHandles
    /\ dut1 = None
    /\ dut2 = None
    /\ compared = None
    /\ converted = None

NextImage ==
    \/ Compare
    \/ ConvertImage

SpecImage == InitImage /\ [][NextImage]_vars

\* The shapes of image, ground_truth and segmentation of one call.
InitPlot ==
    /\ RegInit
    /\ ImgIdle
    /\ shapes \in ArrayShapes \X ArrayShapes \X ArrayShapes
    /\ plot = None

NextPlot ==
    \E path \in SavePaths :
        plot_2d_segmentation(path, shapes[1], shapes[2], shapes[3])

SpecPlot == InitPlot /\ [][NextPlot]_vars

(***************************************************************************)
(* Properties.                                                             *)
(***************************************************************************)

\* C1: constructing RigidMultiModalRegistration raises ValueError if and only
\* if the shrink-factor and smoothing-sigma sequences differ in length; on
\* that failure there is no instance, no engine and no configuration field,
\* and for equal lengths construction succeeds with the fields as given.
C1_ConstructionFailsIffLengthsDiffer ==
    [][\A n \in 1..MaxIterations, s \in ShrinkFactorSeqs, g \in SmoothingSigmaSeqs :
          RigidMultiModalRegistration(n, s, g) =>
              /\ (raised' = "ValueError") <=> (Len(s) # Len(g))
              /\ (Len(s) # Len(g)) =>
                     /\ ~created'
                     /\ registration' = None
                     /\ self' = None
              /\ (Len(s) = Len(g)) =>
                     /\ created'
                     /\ raised' = NoError
                     /\ registration' # None
                     /\ self' = [number_of_iterations |-> n,
                                 shrink_factors |-> s,
                                 smoothing_sigmas |-> g]]_vars

\* A construction has failed: no instance, no engine, no field.
C1_Witness ==
    /\ raised = "ValueError"
    /\ ~created
    /\ registration = None
    /\ self = None

\* C2: execute(image, None) raises ValueError at entry whatever calls came
\* before: the engine keeps its initial transform and its commands, no
\* plotter is added, the engine is not run and nothing is returned.
C2_ExecuteWithoutParamsFails ==
    [][\A image \in Images :
          execute(image, None) =>
              /\ raised' = "ValueError"
              /\ registration' = registration
              /\ plotters' = plotters
              /\ pc' = "idle"
              /\ result' = None
              /\ files' = <<>>]_vars

\* A call without params has failed after an earlier call that ran the
\* engine with a plotter attached.
C2_Witness ==
    /\ raised = "ValueError"
    /\ pc = "idle"
    /\ calls = 2
    /\ registration.runs = 1
    /\ Len(plotters) = 1
    /\ registration.initial_transform = 1

\* C3: the image execute returns has the pixel type of the moving image as
\* the caller passed it, and during the call the caller's moving image and
\* params (with the fixed image) stay as they were passed.
C3_ResultKeepsMovingPixelType ==
    [][/\ (pc = "ended" /\ pc' = "idle") => result'.pixel = frame.moving.pixel
       /\ (pc # "idle") =>
              /\ frame'.moving = frame.moving
              /\ frame'.params = frame.params]_vars

\* C4: during an execute call whose params have an empty plot directory
\* path no diagnostic file is written, whatever calls came before.
C4_EmptyPathWritesNoFile ==
    (frame.params # None /\ ~Truthy(frame.params.plot_directory_path))
        => files = <<>>

\* C5: during a run at most one RegistrationPlotter is subscribed to the
\* engine's events, so an iteration event of a plotted call appends to
\* exactly one metric-value history and writes exactly one file, into the
\* directory of the current call.
C5_OnePlotterPerRun ==
    /\ [](pc \in {"start", "running", "ended"}
             => Cardinality(Subscribed(registration.commands)) <= 1)
    /\ [][\A m \in MetricValues :
            (IterationEvent(m) /\ AttachesPlotter(frame.params)) =>
                /\ Cardinality({k \in 1..Len(plotters) :
                       plotters'[k].metric_values # plotters[k].metric_values}) = 1
                /\ Len(files') = Len(files) + 1
                /\ files'[Len(files')].prefix = frame.params.plot_directory_path]_vars

\* C6: when the engine run has ended, execute prints the final metric value
\* and the stopping condition in verbose mode; otherwise it prints the
\* non-convergence warning exactly when the engine's iteration count equals
\* the maximum the engine was configured with. In every case it returns
\* the resampled image and raises nothing.
C6_ReportAndReturn ==
    [][(pc = "ended" /\ pc' = "idle") =>
          /\ verbose =>
                 output' = <<"Final metric value", "Optimizer's stopping condition">>
          /\ ~verbose =>
                 /\ output' \in {<<>>, <<"did not converge">>}
                 /\ (output' = <<"did not converge">>)
                        <=> (registration.iteration = registration.numberOfIterations)
          /\ raised' = NoError
          /\ result' # None
          /\ result'.grid = "fixed"
          /\ result'.transform = frame.transform]_vars

\* A run that used up its iterations has returned an image with the warning.
C6_Witness ==
    /\ pc = "idle"
    /\ ~verbose
    /\ output = <<"did not converge">>
    /\ result # None
    /\ raised = NoError

\* C7: two ImageProperties are equal iff size, origin, spacing and direction
\* of their handles match; pixel type and components per pixel play no
\* part, and != is the negation of ==.
C7_EqualityIsGeometryOnly ==
    compared # None =>
        /\ compared.eq <=> /\ image1.size = image2.size
                           /\ image1.origin = image2.origin
                           /\ image1.spacing = image2.spacing
                           /\ image1.direction = image2.direction
        /\ compared.ne = ~compared.eq
        /\ (image1 = image2) => compared.eq

\* Equal properties of handles that differ in pixel type and components.
C7_Witness ==
    /\ compared # None
    /\ compared.eq
    /\ image1.pixel_id # image2.pixel_id
    /\ image1.components # image2.components

\* C8: dimensions is the number of spatial axes (the length of size);
\* is_two_dimensional iff it is 2, is_three_dimensional iff it is 3, never
\* both; is_vector_image iff components per pixel > 1.
C8_DimensionsAndVector ==
    dut1 # None =>
        /\ dut1.dimensions = Len(image1.size)
        /\ is_two_dimensional(dut1) <=> (Len(image1.size) = 2)
        /\ is_three_dimensional(dut1) <=> (Len(image1.size) = 3)
        /\ ~(is_two_dimensional(dut1) /\ is_three_dimensional(dut1))
        /\ is_vector_image(dut1) <=> (image1.components > 1)

\* The properties of a two-dimensional vector image.
C8_Witness ==
    /\ dut1 # None
    /\ image1.components > 1
    /\ Len(image1.size) = 2
    /\ is_vector_image(dut1)
    /\ is_two_dimensional(dut1)

\* C9: convert raises ValueError exactly for None; otherwise the array's
\* shape is the handle's size with the axes reversed, its element type is
\* the handle's, and the properties carry the size in the original order.
C9_ConvertReversesAxes ==
    converted # None =>
        /\ (converted.raised = "ValueError") <=> (image1 = None)
        /\ (image1 # None) =>
               /\ Len(converted.array.shape) = Len(image1.size)
               /\ \A i \in 1..Len(image1.size) :
                      converted.array.shape[i] = image1.size[Len(image1.size) + 1 - i]
               /\ converted.array.dtype =
                      (IF image1.pixel_id = "sitkInt8" THEN "int8" ELSE "uint8")
               /\ converted.properties.size = image1.size

\* A converted handle whose reversed size differs from its size.
C9_Witness ==
    /\ converted # None
    /\ image1 # None
    /\ converted.raised = NoError
    /\ converted.array.shape # image1.size
    /\ Len(image1.size) = 3

\* C10: plot_2d_segmentation raises a ValueError whenever the three shapes
\* are not all equal or the common shape is not 2-dimensional, before any
\* figure is created or file written; it raises none otherwise.
C10_PlotValidation ==
    plot # None =>
        LET bad == \/ shapes[1] # shapes[2]
                   \/ shapes[1] # shapes[3]
                   \/ shapes[2] # shapes[3]
                   \/ Len(shapes[1]) # 2
        IN  /\ bad <=> (plot.raised = "ValueError")
            /\ bad => (plot.figures = 0 /\ plot.saved = {})
            /\ ~bad => plot.raised = NoError

\* A rejected call whose image and ground truth agree and only the
\* segmentation differs.
C10_Witness ==
    /\ plot # None
    /\ plot.raised = "ValueError"
    /\ shapes[1] = shapes[2]
    /\ shapes[2] # shapes[3]
    /\ Len(shapes[1]) = 2
    /\ plot.saved = {}

C12_StartResetsEndKeeps ==
    [][/\ StartEvent =>
              \A k \in Subscribed(registration.commands) :
                  /\ plotters'[k].metric_values = <<>>
                  /\ plotters'[k].multires_iterations = <<>>
       /\ EndEvent =>
              /\ Len(plotters') = Len(plotters)
              /\ \A k \in 1..Len(plotters) :
                     /\ plotters'[k].metric_values = plotters[k].metric_values
                     /\ plotters'[k].multires_iterations =
                            plotters[k].multires_iterations]_vars

\* The second run on one engine has just started: the plotter of the first
\* call is still subscribed and is empty again, like the new one.
C12_Witness ==
    /\ pc = "running"
    /\ registration.runs = 2
    /\ registration.events = 0
    /\ Len(plotters) = 2
    /\ Subscribed(registration.commands) = {1, 2}
    /\ \A k \in 1..2 : /\ plotters[k].metric_values = <<>>
                       /\ plotters[k].multires_iterations = <<>>

\* C13: a resolution-change event appends exactly one marker to the marker
\* list of every subscribed plotter, equal to the current length of its
\* metric-value history; the history and the earlier markers are unchanged
\* and no file is written.
C13_ResolutionChangeAppendsMarker ==
    [][MultiResolutionIterationEvent =>
           /\ Len(plotters') = Len(plotters)
           /\ \A k \in Subscribed(registration.commands) :
                  /\ plotters'[k].multires_iterations =
                         plotters[k].multires_iterations
                             \o <<Len(plotters[k].metric_values)>>
                  /\ plotters'[k].metric_values = plotters[k].metric_values
           /\ files' = files]_vars

\* A second resolution level was entered after one iteration on the first:
\* the markers are 0 and 1, and the only file is the one of that iteration.
C13_Witness ==
    /\ pc = "running"
    /\ registration.level = 2
    /\ Len(plotters) = 1
    /\ plotters[1].multires_iterations = <<0, 1>>
    /\ Len(plotters[1].metric_values) = 1
    /\ Len(files) = 1

\* C14: however the run-start, resolution-change and iteration events
\* interleave, when an iteration event renders, every marker of a subscribed
\* plotter is a valid 0-based index into its metric-value history
\* (0 <= marker < length of the history) and its marker list is
\* non-decreasing, so the lookup of line 218 never raises an IndexError; this
\* includes two resolution-change events with no iteration between them.
C14_MarkersAreValidIndices ==
    /\ [][\A metric \in MetricValues :
            IterationEvent(metric) =>
                /\ raised' = NoError
                /\ \A k \in Subscribed(registration.commands) :
                       \A i \in 1..Len(plotters'[k].multires_iterations) :
                           /\ 0 <= plotters'[k].multires_iterations[i]
                           /\ plotters'[k].multires_iterations[i] <
                                  Len(plotters'[k].metric_values)]_vars
    /\ [](/\ raised # "IndexError"
          /\ \A k \in 1..Len(plotters) :
                 \A i, j \in 1..Len(plotters[k].multires_iterations) :
                     i <= j => /\ plotters[k].multires_iterations[i] <=
                                      plotters[k].multires_iterations[j]
                               /\ plotters[k].multires_iterations[j] <=
                                      Len(plotters[k].metric_values))

\* Two resolution levels were entered before the first iteration, which then
\* rendered and wrote its file: both markers point at the first metric value.
C14_Witness ==
    /\ pc = "running"
    /\ raised = NoError
    /\ Len(plotters) = 1
    /\ plotters[1].multires_iterations = <<0, 0>>
    /\ Len(plotters[1].metric_values) = 1
    /\ Len(files) = 1
    /\ registration.iteration = 1

====
